---- MODULE Spec2Model ----
(***************************************************************************)
(* Sender side of the grin wallet (wallet/src/sender.rs): issue_send_tx,   *)
(* build_send_tx, issue_burn_tx and inputs_and_change, run by concurrent   *)
(* callers against one wallet data file.  Every scoped acquisition of the  *)
(* wallet (WalletData::with_wallet / read_wallet) and every network call   *)
(* is one atomic step of the caller.                                       *)
(***************************************************************************)
EXTENDS Integers, Sequences, FiniteSets, TLC

\* ---------------------------------------------------------------- bounds
\* Number of issue_send_tx / issue_burn_tx calls made in one behaviour.
MaxAttempts == 2

\* The concurrent callers.
Procs == {"a", "b"}

\* Height of the chain tip reported by the node.
TipHeights == {1}

\* Requested amounts: below the fee, below one coin, equal to one coin, above
\* the wallet total.
Amounts == {5, 15, 20, 40}

\* minimum_confirmations, max_outputs and selection_strategy arguments.
MinConfs == {0, 1}
MaxOutputs == {1, 2}
Strategies == {TRUE, FALSE}

\* Destinations, as character strings.
DestStdout == <<"s", "t", "d", "o", "u", "t">>
DestHttp == <<"h", "t", "t", "p", ":", "/", "/", "r">>
DestFtp == <<"f", "t", "p", ":", "/", "/", "r">>
DestShort == <<"f", "t", "p">>
Dests == {DestStdout, DestHttp, DestFtp, DestShort}

\* ------------------------------------------------------- keys and outputs
\* keychain.derive_key_id(n_child): the identifier of the n-th derived key.
derive_key_id(n) == <<"key", n>>

\* Identifier::zero(), the unspendable identifier burnt coins are sent to.
IdentifierZero == <<"key", 0>>

\* OutputData as recorded in the wallet (single root key, no coinbase).
OutputData(key, n, v, st, h, lh) ==
    [key_id |-> key, n_child |-> n, value |-> v, status |-> st,
     height |-> h, lock_height |-> lh]

\* The wallet file before the first call: two confirmed outputs.
InitialOutputs ==
    LET k1 == derive_key_id(1)
        k2 == derive_key_id(2)
    IN  (k1 :> OutputData(k1, 1, 10, "Unspent", 0, 0))
        @@ (k2 :> OutputData(k2, 2, 20, "Unspent", 0, 0))

InitialWallet == [outputs |-> InitialOutputs, next_index |-> 3]

\* ------------------------------------------------------------ arithmetic
Max(a, b) == IF a >= b THEN a ELSE b

RECURSIVE SumValues(_)
\* coins.iter().map(|c| c.value).sum()
SumValues(s) == IF s = <<>> THEN 0 ELSE Head(s).value + SumValues(Tail(s))

\* The wallet's default base fee per unit of weight.
BaseFee == 1

\* tx_fee(input_len, output_len, None): weight-based fee.
tx_fee(input_len, output_len) ==
    Max(1, 4 * output_len + 1 - input_len) * BaseFee

\* ------------------------------------------------------ wallet operations
\* WalletData::add_output: insert keyed by the output's identifier.
add_output(w, out) ==
    [w EXCEPT !.outputs =
        [k \in DOMAIN w.outputs \cup {out.key_id} |->
            IF k = out.key_id THEN out ELSE w.outputs[k]]]

\* WalletData::delete_output: remove the output with that identifier.
delete_output(w, key) ==
    [w EXCEPT !.outputs =
        [k \in DOMAIN w.outputs \ {key} |-> w.outputs[k]]]

\* WalletData::lock_output: mark the wallet's copy of the coin Locked.
lock_output(w, coin) ==
    IF coin.key_id \in DOMAIN w.outputs
        /\ w.outputs[coin.key_id].value = coin.value
    THEN [w EXCEPT !.outputs[coin.key_id].status = "Locked"]
    ELSE w

\* WalletData::next_child: mint the next unused derivation index.
next_child(w) == w.next_index

\* The wallet after next_child minted an index.
minted(w) == [w EXCEPT !.next_index = w.next_index + 1]

\* Outputs select_coins may spend: Unspent and confirmed deeply enough.
eligible(w, current_height, minimum_confirmations) ==
    {k \in DOMAIN w.outputs :
        /\ w.outputs[k].status = "Unspent"
        /\ w.outputs[k].height + minimum_confirmations <= current_height}

\* Largest value first; equal values in derivation order.
Before(o1, o2) ==
    \/ o1.value > o2.value
    \/ o1.value = o2.value /\ o1.n_child <= o2.n_child

RECURSIVE SortedOutputs(_)
SortedOutputs(S) ==
    IF S = {} THEN <<>>
    ELSE LET first == CHOOSE o \in S : \A o2 \in S : Before(o, o2)
         IN  <<first>> \o SortedOutputs(S \ {first})

RECURSIVE TakeUntil(_, _, _)
\* Greedy prefix: stop as soon as the accumulated value reaches the amount.
TakeUntil(s, amount, acc) ==
    IF s = <<>> \/ acc >= amount THEN <<>>
    ELSE <<Head(s)>> \o TakeUntil(Tail(s), amount, acc + Head(s).value)

\* WalletData::select_coins.
select_coins(w, amt, current_height, min_conf, max_outputs, select_all) ==
    LET all == SortedOutputs({w.outputs[k] :
                   k \in eligible(w, current_height, min_conf)})
        greedy == TakeUntil(all, amt, 0)
    IN  IF select_all THEN all
        ELSE SubSeq(greedy, 1, IF Len(greedy) < max_outputs
                                 THEN Len(greedy) ELSE max_outputs)

\* ----------------------------------------------------- transaction parts
Part(type, value, key) == [type |-> type, value |-> value, key |-> key]

\* build::with_fee, build::input, build::output, build::with_lock_height
with_fee(fee) == Part("fee", fee, <<"none">>)
input(value, key) == Part("input", value, key)
output(value, key) == Part("output", value, key)
with_lock_height(h) == Part("lock_height", h, <<"none">>)

\* The secret blinding factor the keychain holds for an identifier; the
\* burn keychain holds the zero key for Identifier::zero().
blind_of(key) == IF key[2] = 0 THEN 0 ELSE 2 ^ key[2]

\* Pedersen commitment to a value under the key of an identifier.
commit(value, key) == [v |-> value, r |-> blind_of(key)]

RECURSIVE transaction_neg_inputs(_)
\* build::transaction committing to an input under the negated key.
transaction_neg_inputs(ps) ==
    IF ps = <<>>
    THEN [inputs |-> <<>>, outputs |-> <<>>, fee |-> 0, lock_height |-> 0,
          blind |-> 0]
    ELSE LET rest == transaction_neg_inputs(SubSeq(ps, 1, Len(ps) - 1))
             part == ps[Len(ps)]
         IN  CASE part.type = "input" ->
                    [rest EXCEPT
                        !.inputs = Append(@, [v |-> part.value,
                                              r |-> 0 - blind_of(part.key)]),
                        !.blind = @ - blind_of(part.key)]
               [] part.type = "output" ->
                    [rest EXCEPT
                        !.outputs = Append(@, commit(part.value, part.key)),
                        !.blind = @ + blind_of(part.key)]
               [] part.type = "fee" -> [rest EXCEPT !.fee = part.value]
               [] OTHER -> [rest EXCEPT !.lock_height = part.value]

RECURSIVE transaction(_)
\* build::transaction(parts, keychain): the transaction and the sum of the
\* blinding factors of its parts (outputs positive, inputs negative).
transaction(ps) ==
    IF ps = <<>>
    THEN [inputs |-> <<>>, outputs |-> <<>>, fee |-> 0, lock_height |-> 0,
          blind |-> 0]
    ELSE LET rest == transaction(SubSeq(ps, 1, Len(ps) - 1))
             part == ps[Len(ps)]
         IN  CASE part.type = "input" ->
                    [rest EXCEPT
                        !.inputs = Append(@, commit(part.value, part.key)),
                        !.blind = @ - blind_of(part.key)]
               [] part.type = "output" ->
                    [rest EXCEPT
                        !.outputs = Append(@, commit(part.value, part.key)),
                        !.blind = @ + blind_of(part.key)]
               [] part.type = "fee" -> [rest EXCEPT !.fee = part.value]
               [] OTHER -> [rest EXCEPT !.lock_height = part.value]

\* ------------------------------------------------- sender.rs, pure pieces
\* inputs_and_change lines 197-199 without the check.
not_enough_funds_never(total, amt) == FALSE

\* inputs_and_change line 197: if total < amount
not_enough_funds(total, amt) == total < amt

\* The change with the fee taken out of it instead of out of the amount.
change_value_less_fee(total, amt, fee) == total - amt - fee

\* inputs_and_change line 211: let change = total - amount
change_value(total, amt, fee) == total - amt

RECURSIVE input_parts_by_position(_)
\* One input per coin, keyed by the coin's place in the selection instead of
\* its stored derivation index.
input_parts_by_position(cs) ==
    IF cs = <<>> THEN <<>>
    ELSE <<input(Head(cs).value, derive_key_id(Len(cs)))>>
         \o input_parts_by_position(Tail(cs))

RECURSIVE input_parts(_)
\* inputs_and_change lines 214-217: one input per coin, under its own key
input_parts(cs) ==
    IF cs = <<>> THEN <<>>
    ELSE <<input(Head(cs).value, derive_key_id(Head(cs).n_child))>>
         \o input_parts(Tail(cs))

\* The closure recording the change output without the counter advancing.
reserve_change_unminted(w, change) ==
    LET change_derivation == next_child(w)
        key == derive_key_id(change_derivation)
    IN  add_output(w,
            OutputData(key, change_derivation, change, "Unconfirmed", 0, 0))

\* inputs_and_change lines 220-237: the closure run under with_wallet
reserve_change(w, change) ==
    LET change_derivation == next_child(w)
        key == derive_key_id(change_derivation)
    IN  add_output(minted(w),
            OutputData(key, change_derivation, change, "Unconfirmed", 0, 0))

\* update_wallet that locks nothing.
update_wallet_skip(w, cs) == w

RECURSIVE update_wallet(_, _)
\* issue_send_tx lines 65-69: lock every coin being spent
update_wallet(w, cs) ==
    IF cs = <<>> THEN w
    ELSE update_wallet(lock_output(w, Head(cs)), Tail(cs))

\* rollback_wallet that leaves the change output in the wallet.
rollback_wallet_keep(w, key) == w

\* rollback_wallet that also hands the index of the deleted output back.
rollback_wallet_reuse(w, key) ==
    [delete_output(w, key) EXCEPT !.next_index = key[2]]

\* issue_send_tx lines 72-75: delete the change output
rollback_wallet(w, key) == delete_output(w, key)

\* issue_send_tx lines 77, 81, 95: which branch a dest takes.  Slicing
\* dest[..4] of a shorter string panics.
dest_branch(d) ==
    IF d = <<"s", "t", "d", "o", "u", "t">> THEN "stdout"
    ELSE IF Len(d) < 4 THEN "panic_slice"
    ELSE IF SubSeq(d, 1, 4) = <<"h", "t", "t", "p">> THEN "http"
    ELSE "panic_dest"

\* The subtraction that leaves the fee in the burnt value.
sub_u64_keep(a, b) == {[panic |-> FALSE, wrapped |-> FALSE, value |-> a]}

\* issue_burn_tx line 174: amount - fee in u64.  When fee > amount a debug
\* build panics and a release build wraps: value is then the result minus
\* 2^64.
sub_u64(a, b) ==
    IF a >= b THEN {[panic |-> FALSE, wrapped |-> FALSE, value |-> a - b]}
    ELSE {[panic |-> TRUE, wrapped |-> FALSE, value |-> 0],
          [panic |-> FALSE, wrapped |-> TRUE, value |-> a - b]}

\* ------------------------------------------------------------ the callers
VARIABLES
    wallet,      \* the wallet data file: outputs by identifier, derivation counter
    pc,          \* pc[p]: where caller p is in issue_send_tx / issue_burn_tx
    kind,        \* kind[p]: "send" or "burn"
    amount,      \* amount[p]: the amount argument
    dest,        \* dest[p]: the dest argument (send only)
    height,      \* height[p]: chain_tip.height as fetched
    coins,       \* coins[p]: the Vec<OutputData> returned by select_coins
    parts,       \* parts[p]: the build parts collected so far
    change_key,  \* change_key[p]: identifier of the change output recorded
    tx,          \* tx[p]: the transaction and blinding sum built
    ret,         \* ret[p]: the value returned by the call
    log,         \* log[p]: the steps of the current call that took effect
    pre,         \* pre[p]: the wallet when the call started (kept while alone[p])
    alone,       \* alone[p]: no other call has overlapped the current one
    issued,      \* every derivation index next_child has handed out, in order
    chain,       \* transactions handed on, not yet seen confirmed by a refresh
    started      \* number of calls started

vars == <<wallet, pc, kind, amount, dest, height, coins, parts, change_key,
          tx, ret, log, pre, alone, issued, chain, started>>

NoKey == <<"none">>
NoTx == [inputs |-> <<>>, outputs |-> <<>>, fee |-> 0, lock_height |-> 0,
         blind |-> 0]
NoRet == [tag |-> "none", arg |-> 0]
Ok == [tag |-> "Ok", arg |-> 0]
Err(tag, arg) == [tag |-> tag, arg |-> arg]

Running(p) == pc[p] \notin {"idle", "done"}

\* The callers are interchangeable: of the idle ones, the first calls next.
FirstIdle(p) == p = CHOOSE q \in Procs : pc[q] = "idle"

Init ==
    /\ wallet = InitialWallet
    /\ pc = [p \in Procs |-> "idle"]
    /\ kind = [p \in Procs |-> "send"]
    /\ amount = [p \in Procs |-> 0]
    /\ dest = [p \in Procs |-> <<>>]
    /\ height = [p \in Procs |-> 0]
    /\ coins = [p \in Procs |-> <<>>]
    /\ parts = [p \in Procs |-> <<>>]
    /\ change_key = [p \in Procs |-> NoKey]
    /\ tx = [p \in Procs |-> NoTx]
    /\ ret = [p \in Procs |-> NoRet]
    /\ log = [p \in Procs |-> <<>>]
    /\ pre = [p \in Procs |-> InitialWallet]
    /\ alone = [p \in Procs |-> TRUE]
    /\ issued = <<>>
    /\ chain = {}
    /\ started = 0

\* Where a caller's next step reads and writes nothing shared: a network
\* call that leaves the wallet alone, a local computation, the return.
Local(p) == pc[p] \in {"tip", "build", "push", "emit", "done"}

\* A step that touches nothing shared commutes with every step of the other
\* callers, so it is taken before any other caller moves.
Turn(p) == \A q \in Procs \ {p} : ~Local(q)

\* The call returns r: nothing of the call remains but its result and its log.
Finish(p, r, entry) ==
    /\ pc' = [pc EXCEPT ![p] = "done"]
    /\ ret' = [ret EXCEPT ![p] = r]
    /\ log' = [log EXCEPT ![p] = IF entry = "" THEN @ ELSE Append(@, entry)]

Goto(p, label, entry) ==
    /\ pc' = [pc EXCEPT ![p] = label]
    /\ log' = [log EXCEPT ![p] = IF entry = "" THEN @ ELSE Append(@, entry)]
    /\ UNCHANGED ret

\* A caller enters issue_send_tx or issue_burn_tx.  An argument of the call
\* is drawn where the code first reads it.
Start(p) ==
    /\ Turn(p)
    /\ pc[p] = "idle"
    /\ started < MaxAttempts
    /\ FirstIdle(p)
    /\ \E k \in {"send", "burn"} :
        /\ kind' = [kind EXCEPT ![p] = k]
        /\ pc' = [pc EXCEPT ![p] = IF k = "send" THEN "refresh" ELSE "tip"]
    /\ alone' = [q \in Procs |->
                    IF q = p THEN \A o \in Procs \ {p} : ~Running(o)
                    ELSE IF Running(q) THEN FALSE ELSE alone[q]]
    /\ pre' = [q \in Procs |->
                    IF ~alone'[q] THEN InitialWallet
                    ELSE IF q = p THEN wallet ELSE pre[q]]
    /\ started' = started + 1
    /\ UNCHANGED <<wallet, amount, dest, height, coins, parts, change_key,
                   tx, ret, log, issued, chain>>

\* A transaction as the chain sees it: the outputs it spends and the
\* change output it creates for this wallet.
ChainTx(p) == [inputs |-> {coins[p][i].key_id : i \in 1..Len(coins[p])},
               change |-> change_key[p], kind |-> kind[p]]

Spent(w) == {k \in DOMAIN w.outputs : w.outputs[k].status = "Spent"}

\* Sets of handed-on transactions the chain can have confirmed since the
\* last refresh: none spends a spent output, no two spend the same output.
Confirmable(w, txs) ==
    {S \in SUBSET txs :
        /\ \A t \in S : t.inputs \cap Spent(w) = {}
        /\ \A t1, t2 \in S : t1 # t2 => t1.inputs \cap t2.inputs = {}}

\* checker::refresh_outputs succeeded: the change outputs of the confirmed
\* transactions become Unspent at the height seen, their inputs Spent.
refresh_outputs(w, confirmed, h) ==
    LET created == {t.change : t \in confirmed}
        consumed == UNION {t.inputs : t \in confirmed}
    IN  [w EXCEPT !.outputs =
            [k \in DOMAIN w.outputs |->
                IF k \in consumed /\ w.outputs[k].status \in {"Unspent", "Locked"}
                THEN [w.outputs[k] EXCEPT !.status = "Spent"]
                ELSE IF k \in created /\ w.outputs[k].status = "Unconfirmed"
                THEN [w.outputs[k] EXCEPT !.status = "Unspent", !.height = h]
                ELSE w.outputs[k]]]

\* The transactions still waiting once `confirmed` are in the chain.
waiting(txs, confirmed) ==
    {t \in txs \ confirmed :
        \A c \in confirmed : t.inputs \cap c.inputs = {}}

\* issue_send_tx line 42: refresh_outputs(config, keychain)?
SendRefresh(p) ==
    /\ Turn(p)
    /\ pc[p] = "refresh" /\ kind[p] = "send"
    /\ \/ /\ \E S \in Confirmable(wallet, chain), h \in TipHeights :
                /\ wallet' = refresh_outputs(wallet, S, h)
                /\ chain' = waiting(chain, S)
          /\ Goto(p, "tip", "")
       \/ /\ Finish(p, Err("Node", 0), "refresh_failed")
          /\ UNCHANGED <<wallet, chain>>
    /\ UNCHANGED <<kind, amount, dest, height, coins, parts, change_key, tx,
                   pre, alone, issued, started>>

\* issue_burn_tx line 152: let _ = refresh_outputs(config, keychain)
BurnRefresh(p) ==
    /\ Turn(p)
    /\ pc[p] = "refresh" /\ kind[p] = "burn"
    /\ \/ /\ \E S \in Confirmable(wallet, chain), h \in TipHeights :
                /\ wallet' = refresh_outputs(wallet, S, h)
                /\ chain' = waiting(chain, S)
          /\ Goto(p, "select", "")
       \/ /\ Goto(p, "select", "refresh_failed")
          /\ UNCHANGED <<wallet, chain>>
    /\ UNCHANGED <<kind, amount, dest, height, coins, parts, change_key, tx,
                   pre, alone, issued, started>>

\* checker::get_tip_from_node(config)?  (lines 44 and 149)
GetTip(p) ==
    /\ Turn(p)
    /\ pc[p] = "tip"
    /\ \/ /\ \E h \in TipHeights : height' = [height EXCEPT ![p] = h]
          /\ Goto(p, IF kind[p] = "send" THEN "select" ELSE "refresh", "")
       \/ /\ Finish(p, Err("Node", 0), "tip_failed")
          /\ UNCHANGED height
    /\ UNCHANGED <<wallet, kind, amount, dest, coins, parts, change_key, tx,
                   pre, alone, issued, chain, started>>

\* WalletData::read_wallet(.. select_coins ..)?  (lines 117-126 and 157-166)
SelectCoins(p) ==
    /\ Turn(p)
    /\ pc[p] = "select"
    /\ \/ /\ \E a \in Amounts, mc \in MinConfs, mo \in MaxOutputs,
                   st \in Strategies :
                /\ kind[p] = "burn" => st = FALSE
                /\ amount' = [amount EXCEPT ![p] = a]
                /\ coins' = [coins EXCEPT ![p] =
                        select_coins(wallet, a, height[p], mc, mo, st)]
          /\ Goto(p, "change", "selected")
       \/ /\ Finish(p, Err("WalletIO", 0), "")
          /\ UNCHANGED <<amount, coins>>
    /\ UNCHANGED <<wallet, kind, dest, height, parts, change_key, tx,
                   pre, alone, issued, chain, started>>

\* inputs_and_change(&coins, config, keychain, amount)?  (lines 129 and 170)
InputsAndChange(p) ==
    /\ Turn(p)
    /\ pc[p] = "change"
    /\ LET total == SumValues(coins[p])
           fee == tx_fee(Len(coins[p]), 2)
           change == change_value(total, amount[p], fee)
           key == derive_key_id(next_child(wallet))
       IN  IF not_enough_funds(total, amount[p])
           THEN /\ Finish(p, Err("NotEnoughFunds", total), "")
                /\ UNCHANGED <<wallet, parts, change_key, issued>>
           ELSE \/ /\ wallet' = reserve_change(wallet, change)
                   /\ parts' = [parts EXCEPT ![p] =
                         <<with_fee(fee)>> \o input_parts(coins[p])
                         \o <<output(change, key)>>]
                   /\ change_key' = [change_key EXCEPT ![p] = key]
                   /\ issued' = Append(issued, next_child(wallet))
                   /\ Goto(p, "build", "reserved")
                \/ /\ coins[p] # <<>>
                   /\ Finish(p, Err("Keychain", 0), "")
                   /\ UNCHANGED <<wallet, parts, change_key, issued>>
                \/ /\ Finish(p, Err("WalletIO", 0), "")
                   /\ UNCHANGED <<wallet, parts, change_key, issued>>
    /\ UNCHANGED <<kind, amount, dest, height, coins, tx, pre, alone, chain,
                   started>>

\* build_send_tx lines 133-137: lock height part, then build::transaction
SendBuild(p) ==
    /\ Turn(p)
    /\ pc[p] = "build" /\ kind[p] = "send"
    /\ LET ps == Append(parts[p], with_lock_height(height[p]))
       IN  \/ /\ parts' = [parts EXCEPT ![p] = ps]
              /\ tx' = [tx EXCEPT ![p] = transaction(ps)]
              /\ Goto(p, "dispatch", "built")
           \/ /\ Finish(p, Err("Keychain", 0), "build_failed")
              /\ UNCHANGED <<parts, tx>>
    /\ UNCHANGED <<wallet, kind, amount, dest, height, coins, change_key,
                   pre, alone, issued, chain, started>>

\* issue_burn_tx lines 173-178: burn output, build::transaction, validate.
\* A wrapped burn value leaves the sums of the transaction unbalanced, which
\* validate() rejects.
BurnBuild(p) ==
    /\ Turn(p)
    /\ pc[p] = "build" /\ kind[p] = "burn"
    /\ \E burnt \in sub_u64(amount[p], tx_fee(Len(coins[p]), 2)) :
         IF burnt.panic
         THEN /\ Finish(p, Err("Panic", 0), "panic")
              /\ UNCHANGED <<parts, tx>>
         ELSE LET ps == Append(parts[p],
                               output(burnt.value, IdentifierZero))
              IN  \/ /\ parts' = [parts EXCEPT ![p] = ps]
                     /\ tx' = [tx EXCEPT ![p] = transaction(ps)]
                     /\ IF burnt.wrapped
                        THEN Finish(p, Err("Validate", 0), "validate_failed")
                        ELSE Goto(p, "push", "built")
                  \/ /\ Finish(p, Err("Keychain", 0), "build_failed")
                     /\ UNCHANGED <<parts, tx>>
    /\ UNCHANGED <<wallet, kind, amount, dest, height, coins, change_key,
                   pre, alone, issued, chain, started>>

\* issue_burn_tx lines 180-184: post the transaction to the node's pool
BurnPush(p) ==
    /\ Turn(p)
    /\ pc[p] = "push"
    /\ \/ /\ Finish(p, Ok, "pushed")
          /\ chain' = chain \cup {ChainTx(p)}
       \/ /\ Finish(p, Err("Node", 0), "push_failed")
          /\ UNCHANGED chain
    /\ UNCHANGED <<wallet, kind, amount, dest, height, coins, parts,
                   change_key, tx, pre, alone, issued, started>>

\* The stdout branch with println! ahead of update_wallet().
StdoutEmitFirst(p) ==
    /\ Turn(p)
    /\ pc[p] = "dispatch"
    /\ \E d \in Dests :
        /\ dest_branch(d) = "stdout"
        /\ dest' = [dest EXCEPT ![p] = d]
    /\ wallet' = update_wallet(wallet, coins[p])
    /\ pc' = [pc EXCEPT ![p] = "done"]
    /\ ret' = [ret EXCEPT ![p] = Ok]
    /\ log' = [log EXCEPT ![p] = @ \o <<"emit", "commit">>]
    /\ chain' = chain \cup {ChainTx(p)}
    /\ UNCHANGED <<kind, amount, height, coins, parts, change_key, tx,
                   pre, alone, issued, started>>

\* issue_send_tx lines 77-79: dest is "stdout", update_wallet()?
StdoutCommit(p) ==
    /\ Turn(p)
    /\ pc[p] = "dispatch"
    /\ \E d \in Dests :
        /\ dest_branch(d) = "stdout"
        /\ dest' = [dest EXCEPT ![p] = d]
    /\ \/ /\ wallet' = update_wallet(wallet, coins[p])
          /\ Goto(p, "emit", "commit")
       \/ /\ Finish(p, Err("WalletIO", 0), "commit_failed")
          /\ UNCHANGED wallet
    /\ UNCHANGED <<kind, amount, height, coins, parts, change_key, tx,
                   pre, alone, issued, chain, started>>

\* issue_send_tx line 80 and 98: println!(json_tx); Ok(())
StdoutEmit(p) ==
    /\ Turn(p)
    /\ pc[p] = "emit"
    /\ Finish(p, Ok, "emit")
    /\ chain' = chain \cup {ChainTx(p)}
    /\ UNCHANGED <<wallet, kind, amount, dest, height, coins, parts,
                   change_key, tx, pre, alone, issued, started>>

\* The http branch returning the delivery error without rolling back.
HttpPostNoRollback(p) ==
    /\ Turn(p)
    /\ pc[p] = "dispatch"
    /\ \E d \in Dests :
        /\ dest_branch(d) = "http"
        /\ dest' = [dest EXCEPT ![p] = d]
    /\ \/ /\ Goto(p, "commit", "delivered")
          /\ chain' = chain \cup {ChainTx(p)}
       \/ /\ Finish(p, Err("Node", 0), "dispatch_failed")
          /\ UNCHANGED chain
    /\ UNCHANGED <<wallet, kind, amount, height, coins, parts,
                   change_key, tx, pre, alone, issued, started>>

\* issue_send_tx lines 81-85: client::send_partial_tx(&url, &partial_tx)
HttpPost(p) ==
    /\ Turn(p)
    /\ pc[p] = "dispatch"
    /\ \E d \in Dests :
        /\ dest_branch(d) = "http"
        /\ dest' = [dest EXCEPT ![p] = d]
    /\ \/ /\ Goto(p, "commit", "delivered")
          /\ chain' = chain \cup {ChainTx(p)}
       \/ /\ Goto(p, "rollback", "dispatch_failed")
          /\ UNCHANGED chain
    /\ UNCHANGED <<wallet, kind, amount, height, coins, parts,
                   change_key, tx, pre, alone, issued, started>>

\* update_wallet acquiring the wallet once per coin.
HttpCommitOneByOne(p) ==
    /\ Turn(p)
    /\ pc[p] = "commit"
    /\ LET todo == SelectSeq(coins[p],
                     LAMBDA c : wallet.outputs[c.key_id].status # "Locked")
       IN  \/ /\ todo = <<>>
              /\ Finish(p, Ok, "commit")
              /\ UNCHANGED wallet
           \/ /\ todo # <<>>
              /\ wallet' = lock_output(wallet, Head(todo))
              /\ UNCHANGED <<pc, ret, log>>
           \/ /\ Finish(p, Err("WalletIO", 0), "commit_failed")
              /\ UNCHANGED wallet
    /\ UNCHANGED <<kind, amount, dest, height, coins, parts, change_key, tx,
                   pre, alone, issued, chain, started>>

\* issue_send_tx lines 91-93 and 98: update_wallet()?; Ok(())
HttpCommit(p) ==
    /\ Turn(p)
    /\ pc[p] = "commit"
    /\ \/ /\ wallet' = update_wallet(wallet, coins[p])
          /\ Finish(p, Ok, "commit")
       \/ /\ Finish(p, Err("WalletIO", 0), "commit_failed")
          /\ UNCHANGED wallet
    /\ UNCHANGED <<kind, amount, dest, height, coins, parts, change_key, tx,
                   pre, alone, issued, chain, started>>

\* issue_send_tx lines 86-90: rollback_wallet()?; return res
HttpRollback(p) ==
    /\ Turn(p)
    /\ pc[p] = "rollback"
    /\ \/ /\ wallet' = rollback_wallet(wallet, change_key[p])
          /\ Finish(p, Err("Node", 0), "rollback")
       \/ /\ Finish(p, Err("WalletIO", 0), "rollback_failed")
          /\ UNCHANGED wallet
    /\ UNCHANGED <<kind, amount, dest, height, coins, parts, change_key, tx,
                   pre, alone, issued, chain, started>>

\* issue_send_tx lines 95-97 (and the slice on line 81): panic!
BadDest(p) ==
    /\ Turn(p)
    /\ pc[p] = "dispatch"
    /\ \E d \in Dests :
        /\ dest_branch(d) \in {"panic_slice", "panic_dest"}
        /\ dest' = [dest EXCEPT ![p] = d]
    /\ Finish(p, Err("Panic", 0), "panic")
    /\ UNCHANGED <<wallet, kind, amount, height, coins, parts,
                   change_key, tx, pre, alone, issued, chain, started>>

\* The call has returned; the caller may call again.
Return(p) ==
    /\ Turn(p)
    /\ pc[p] = "done"
    /\ pc' = [pc EXCEPT ![p] = "idle"]
    /\ kind' = [kind EXCEPT ![p] = "send"]
    /\ amount' = [amount EXCEPT ![p] = 0]
    /\ dest' = [dest EXCEPT ![p] = <<>>]
    /\ height' = [height EXCEPT ![p] = 0]
    /\ coins' = [coins EXCEPT ![p] = <<>>]
    /\ parts' = [parts EXCEPT ![p] = <<>>]
    /\ change_key' = [change_key EXCEPT ![p] = NoKey]
    /\ tx' = [tx EXCEPT ![p] = NoTx]
    /\ ret' = [ret EXCEPT ![p] = NoRet]
    /\ log' = [log EXCEPT ![p] = <<>>]
    /\ pre' = [pre EXCEPT ![p] = InitialWallet]
    /\ alone' = [alone EXCEPT ![p] = TRUE]
    /\ UNCHANGED <<wallet, issued, chain, started>>

Next ==
    \E p \in Procs :
        \/ Start(p)
        \/ SendRefresh(p)
        \/ BurnRefresh(p)
        \/ GetTip(p)
        \/ SelectCoins(p)
        \/ InputsAndChange(p)
        \/ SendBuild(p)
        \/ BurnBuild(p)
        \/ BurnPush(p)
        \/ StdoutCommit(p)
        \/ StdoutEmit(p)
        \/ HttpPost(p)
        \/ HttpCommit(p)
        \/ HttpRollback(p)
        \/ BadDest(p)
        \/ Return(p)

Spec == Init /\ [][Next]_vars

\* ------------------------------------------------------------ properties
Has(p, e) == \E i \in 1..Len(log[p]) : log[p][i] = e
Pos(p, e) == CHOOSE i \in 1..Len(log[p]) : log[p][i] = e
CoinKeys(p) == {coins[p][i].key_id : i \in 1..Len(coins[p])}
Returned(p) == pc[p] = "done"
OnStdout(p) == kind[p] = "send" /\ dest_branch(dest[p]) = "stdout"

RECURSIVE SumCommitted(_)
\* Sum of the values committed to by a sequence of inputs or outputs.
SumCommitted(cs) == IF cs = <<>> THEN 0 ELSE Head(cs).v + SumCommitted(Tail(cs))

\* C1: after a send whose delivery to an http destination failed and whose
\* rollback succeeded, the change output of the call is gone; when no other
\* call overlapped it, the wallet holds no output it did not hold before the
\* call and every coin the call selected is still Unspent.
C1_FailedDeliveryRestoresWallet ==
    \A p \in Procs :
        (Returned(p) /\ kind[p] = "send" /\ Has(p, "dispatch_failed")
            /\ Has(p, "rollback")) =>
            /\ change_key[p] \notin DOMAIN wallet.outputs
            /\ alone[p] =>
                /\ DOMAIN wallet.outputs \subseteq DOMAIN pre[p].outputs
                /\ \A k \in CoinKeys(p) :
                    /\ k \in DOMAIN wallet.outputs
                    /\ wallet.outputs[k].status = "Unspent"

C1_Witness ==
    \E p \in Procs :
        /\ Returned(p) /\ kind[p] = "send" /\ alone[p]
        /\ Has(p, "dispatch_failed") /\ Has(p, "rollback")
        /\ coins[p] # <<>>
        /\ ret[p].tag = "Node"

\* C2: after a send that returned Ok every selected coin is Locked; when no
\* other call overlapped it, the one output the call added is its change
\* output, with value = sum of the selected coins - amount, status
\* Unconfirmed, height 0 and lock_height 0.
C2_OkSendLocksCoinsAndRecordsChange ==
    \A p \in Procs :
        (Returned(p) /\ kind[p] = "send" /\ ret[p] = Ok) =>
            /\ \A k \in CoinKeys(p) :
                /\ k \in DOMAIN wallet.outputs
                /\ wallet.outputs[k].status = "Locked"
            /\ change_key[p] \in DOMAIN wallet.outputs
            /\ wallet.outputs[change_key[p]].value
                  = SumValues(coins[p]) - amount[p]
            /\ alone[p] =>
                /\ change_key[p] \notin DOMAIN pre[p].outputs
                /\ DOMAIN wallet.outputs
                      = DOMAIN pre[p].outputs \cup {change_key[p]}
                /\ wallet.outputs[change_key[p]].status = "Unconfirmed"
                /\ wallet.outputs[change_key[p]].height = 0
                /\ wallet.outputs[change_key[p]].lock_height = 0

C2_Witness ==
    \E p \in Procs :
        /\ Returned(p) /\ kind[p] = "send" /\ ret[p] = Ok /\ alone[p]
        /\ Len(coins[p]) = 2
        /\ wallet.outputs[change_key[p]].value > 0

\* C3: no output is selected by two calls that are both in progress.
C3_NoOutputSelectedTwice ==
    \A p, q \in Procs :
        (p # q /\ Running(p) /\ Running(q)
            /\ Has(p, "selected") /\ Has(q, "selected")) =>
            CoinKeys(p) \cap CoinKeys(q) = {}

\* C4: when delivery failed and the rollback failed as well, the call
\* still returns the error of the failed delivery.
C4_DispatchErrorNotMasked ==
    \A p \in Procs :
        (Returned(p) /\ Has(p, "dispatch_failed")
            /\ Has(p, "rollback_failed")) => ret[p].tag = "Node"

\* C5: a derivation index handed out for a change output is never handed
\* out again, also after the output it named was deleted by a rollback.
C5_IndexNeverReissued ==
    \A i, j \in 1..Len(issued) : i # j => issued[i] # issued[j]

C5_Witness ==
    \E i, j \in 1..Len(issued) :
        /\ i < j
        /\ derive_key_id(issued[i]) \notin DOMAIN wallet.outputs
        /\ derive_key_id(issued[j]) \in DOMAIN wallet.outputs

\* C6: a send with a dest that is neither "stdout" nor starts with "http"
\* ends in the panic with the wallet as it was before the call: no output
\* added or deleted, none locked, no derivation index consumed.
C6_BadDestLeavesWallet ==
    \A p \in Procs :
        (Returned(p) /\ kind[p] = "send" /\ ret[p].tag = "Panic"
            /\ alone[p]) =>
            /\ DOMAIN wallet.outputs = DOMAIN pre[p].outputs
            /\ wallet.next_index = pre[p].next_index
            /\ \A k \in DOMAIN pre[p].outputs :
                  wallet.outputs[k].status = "Locked"
                      => pre[p].outputs[k].status = "Locked"

\* C7 as stated: the inputs of a built send transaction sum to
\* amount + change + fee.
C7_InputsAreAmountChangeFee ==
    \A p \in Procs :
        (kind[p] = "send" /\ pc[p] = "dispatch") =>
            SumCommitted(tx[p].inputs)
                = amount[p] + wallet.outputs[change_key[p]].value + tx[p].fee

\* C7 as amended: the inputs of a built send transaction sum to
\* amount + change; the fee tx_fee(inputs, 2) is carried by the transaction
\* and comes out of the amount.
C7_InputsAreAmountChange ==
    \A p \in Procs :
        (kind[p] = "send" /\ pc[p] = "dispatch") =>
            /\ SumCommitted(tx[p].inputs)
                  = amount[p] + wallet.outputs[change_key[p]].value
            /\ tx[p].fee = tx_fee(Len(tx[p].inputs), 2)

C7_Witness ==
    \E p \in Procs :
        /\ kind[p] = "send" /\ pc[p] = "dispatch"
        /\ Len(tx[p].inputs) = 2
        /\ tx[p].fee > 0
        /\ wallet.outputs[change_key[p]].value > 0

\* C8: a burn that does not return Ok leaves the outputs of the wallet and
\* its derivation counter as they were before the call.
C8_FailedBurnLeavesWallet ==
    \A p \in Procs :
        (Returned(p) /\ kind[p] = "burn" /\ ret[p] # Ok /\ alone[p]) =>
            /\ DOMAIN wallet.outputs = DOMAIN pre[p].outputs
            /\ wallet.next_index = pre[p].next_index

\* C9 as stated: on the stdout path the transaction is emitted before the
\* coins are locked.
C9_EmitBeforeCommit ==
    \A p \in Procs :
        (OnStdout(p) /\ Has(p, "commit")) =>
            Has(p, "emit") /\ Pos(p, "emit") < Pos(p, "commit")

\* C9 as amended: on the stdout path the coins are locked first and the
\* transaction is emitted only after the commit succeeded; a call that
\* returns Ok has emitted; the stdout path never rolls back.
C9_CommitBeforeEmit ==
    \A p \in Procs :
        OnStdout(p) =>
            /\ ~Has(p, "rollback") /\ ~Has(p, "rollback_failed")
            /\ Has(p, "emit") =>
                  Has(p, "commit") /\ Pos(p, "commit") < Pos(p, "emit")
            /\ (Returned(p) /\ ret[p] = Ok) => Has(p, "emit")

C9_Witness ==
    \E p \in Procs :
        /\ OnStdout(p) /\ Returned(p) /\ ret[p] = Ok
        /\ Has(p, "commit") /\ Has(p, "emit")

\* C10: when the coins passed to inputs_and_change total less than the
\* amount, the step returns NotEnoughFunds(total) and leaves the wallet as
\* it is: no change output recorded, no derivation index handed out.
C10_NotEnoughFunds ==
    [][\A p \in Procs :
        (pc[p] = "change" /\ pc'[p] # "change"
            /\ SumValues(coins[p]) < amount[p]) =>
            /\ ret'[p] = Err("NotEnoughFunds", SumValues(coins[p]))
            /\ wallet' = wallet
            /\ issued' = issued
            /\ change_key'[p] = change_key[p]]_vars

C10_Witness ==
    \E p \in Procs :
        /\ Returned(p) /\ Has(p, "selected")
        /\ coins[p] # <<>>
        /\ SumValues(coins[p]) < amount[p]
        /\ ret[p] = Err("NotEnoughFunds", SumValues(coins[p]))
        /\ ~Has(p, "reserved")

C12_FailedSendDeletesChange ==
    \A p \in Procs :
        (Returned(p) /\ kind[p] = "send" /\ ret[p] # Ok) =>
            change_key[p] \notin DOMAIN wallet.outputs

Attempted(p, es) == \E e \in es : Has(p, e)

\* C13: in a send, commit and rollback come only after the change output was
\* reserved, at most one of the two is attempted, and a call whose dispatch
\* failed has attempted the rollback when it returns its error.
C13_CommitOrRollbackAfterReserve ==
    \A p \in Procs :
        kind[p] = "send" =>
            /\ \A e \in {"commit", "commit_failed", "rollback",
                         "rollback_failed"} :
                  Has(p, e) =>
                      Has(p, "reserved") /\ Pos(p, "reserved") < Pos(p, e)
            /\ ~(Attempted(p, {"commit", "commit_failed"})
                  /\ Attempted(p, {"rollback", "rollback_failed"}))
            /\ (Returned(p) /\ Has(p, "dispatch_failed")) =>
                  /\ Attempted(p, {"rollback", "rollback_failed"})
                  /\ ret[p] # Ok

C13_Witness ==
    \E p \in Procs :
        /\ kind[p] = "send" /\ Returned(p)
        /\ Has(p, "dispatch_failed") /\ Has(p, "rollback_failed")

\* C14: every output in the wallet has a value above zero.
C14_OutputValuesPositive ==
    \A k \in DOMAIN wallet.outputs : wallet.outputs[k].value > 0

Committed(l) == \E i \in 1..Len(l) : l[i] = "commit"
RolledBack(l) == \E i \in 1..Len(l) : l[i] = "rollback"
LockedKeys(w) == {k \in DOMAIN w.outputs : w.outputs[k].status = "Locked"}

\* C15: commit and rollback each change the wallet in one step: a step in
\* which any output becomes Locked is the commit of one call and leaves every
\* coin that call selected Locked, and a step in which an output leaves the
\* wallet is the rollback of one call and removes its change output only.
C15_CommitAndRollbackAtomic ==
    [][/\ LockedKeys(wallet') \ LockedKeys(wallet) # {} =>
            \E p \in Procs :
                /\ ~Committed(log[p]) /\ Committed(log'[p])
                /\ CoinKeys(p) \subseteq LockedKeys(wallet')
                /\ LockedKeys(wallet') \ LockedKeys(wallet) \subseteq CoinKeys(p)
       /\ DOMAIN wallet.outputs \ DOMAIN wallet'.outputs # {} =>
            \E p \in Procs :
                /\ ~RolledBack(log[p]) /\ RolledBack(log'[p])
                /\ DOMAIN wallet.outputs \ DOMAIN wallet'.outputs
                       = {change_key[p]}]_vars

C15_Witness ==
    \E p, q \in Procs :
        /\ p # q
        /\ Has(p, "commit") /\ Len(coins[p]) = 2
        /\ CoinKeys(p) \subseteq LockedKeys(wallet)
        /\ Running(q) /\ Has(q, "reserved")

\* C16: a failed network call is returned at once: a call that saw the
\* refresh, the tip fetch or the burn push fail has returned an error, and a
\* send whose delivery failed is rolling back or has returned an error.
C16_NetworkFailureSurfaces ==
    \A p \in Procs :
        /\ Attempted(p, {"refresh_failed", "tip_failed", "push_failed"}) =>
              Returned(p) /\ ret[p] # Ok
        /\ Has(p, "dispatch_failed") =>
              \/ pc[p] = "rollback"
              \/ Returned(p) /\ ret[p] # Ok

BurnBuilt(p) == kind[p] = "burn" /\ Has(p, "built")
BurnOutput(p) == tx[p].outputs[Len(tx[p].outputs)]

RECURSIVE SumInputBlinds(_)
\* Sum of the blinding factors of one input per coin, by derivation index.
SumInputBlinds(cs) ==
    IF cs = <<>> THEN 0
    ELSE blind_of(derive_key_id(Head(cs).n_child)) + SumInputBlinds(Tail(cs))

\* C18: the blinding factor of a built send transaction is that of its one
\* change output less those of one input per selected coin, each keyed by the
\* coin's stored derivation index; fee and lock height add nothing.
C18_SendBlindingSum ==
    \A p \in Procs :
        (kind[p] = "send" /\ Has(p, "built")) =>
            /\ Len(tx[p].outputs) = 1
            /\ Len(tx[p].inputs) = Len(coins[p])
            /\ tx[p].blind
                   = blind_of(change_key[p]) - SumInputBlinds(coins[p])

C18_Witness ==
    \E p \in Procs :
        /\ kind[p] = "send" /\ Has(p, "built")
        /\ Len(coins[p]) = 2
        /\ tx[p].fee > 0 /\ tx[p].lock_height > 0
        /\ tx[p].blind = blind_of(change_key[p]) - 6

\* C19: a call that starts after a burn returned Ok selects none of the coins
\* that burn spent while the chain has not confirmed the burn.
C19_BurntCoinsNotSelectable ==
    \A p \in Procs :
        (Running(p) /\ alone[p] /\ Has(p, "selected")) =>
            \A t \in chain : t.kind = "burn" => CoinKeys(p) \cap t.inputs = {}

\* C20: the outputs in the wallet have distinct derivation indices, each is
\* stored under the identifier derived from its index, and two calls holding
\* a reserved change output hold different ones.
C20_ChangeKeysDistinct ==
    /\ \A k \in DOMAIN wallet.outputs :
          /\ wallet.outputs[k].key_id = k
          /\ k = derive_key_id(wallet.outputs[k].n_child)
    /\ \A k1, k2 \in DOMAIN wallet.outputs :
          k1 # k2 => wallet.outputs[k1].n_child # wallet.outputs[k2].n_child
    /\ \A p, q \in Procs :
          (p # q /\ change_key[p] # NoKey /\ change_key[q] # NoKey) =>
              change_key[p] # change_key[q]

C20_Witness ==
    \E p, q \in Procs :
        /\ p # q
        /\ Running(p) /\ Running(q)
        /\ change_key[p] \in DOMAIN wallet.outputs
        /\ change_key[q] \in DOMAIN wallet.outputs
        /\ wallet.outputs[change_key[p]].status = "Unconfirmed"
        /\ wallet.outputs[change_key[q]].status = "Unconfirmed"
====
